---- MODULE Spec2Model ----
(***************************************************************************)
(* Model of main.py: a Flask application with two routes.  /get_info       *)
(* increments the prometheus Counter REQUEST_COUNT, logs the serving pod   *)
(* and returns the configured version and title as JSON; /metrics returns  *)
(* the text exposition of the registry.  Requests are served concurrently  *)
(* by the host (uvicorn over WsgiToAsgi runs each WSGI call in a thread    *)
(* pool), so every statement of a handler is one step that interleaves     *)
(* with the steps of the other requests.                                   *)
(***************************************************************************)
EXTENDS Integers, Sequences, FiniteSets, TLC

\* Number of request slots of the model, and the number of requests that
\* arrive when the host serves them concurrently.
MaxReq == 4
MaxConcurrent == 3

Req == 1..MaxReq

\* os.getenv's result for a variable that is not in the environment.
None == "<None>"

\* Values the environment may give each variable at process start.
VersionValues == {None, "2.3.1"}
TitleValues == {None, "MyApp"}
HostnameValues == {None, "pod-a"}

VARIABLES
    environ,        \* os.environ: variable name -> value or None
    APP_VERSION,    \* module global, line 9
    APP_TITLE,      \* module global, line 10
    REQUEST_COUNT,  \* value of the Counter "requests_total", line 12
    log,            \* records emitted through flask_app.logger
    handler,        \* request -> view function the router chose
    pc,             \* request -> next statement of its handler
    pod_name,       \* request -> get_info's local pod_name
    payload,        \* request -> metrics' generate_latest() result
    resp,           \* request -> response the handler returned
    twin,           \* the run started with another HOSTNAME and taking the
                    \* same steps: its HOSTNAME, counter, pod names, log
                    \* and get_info responses
    at_begin        \* metrics request in flight -> the counter's value when
                    \* the request was dispatched

vars == <<environ, APP_VERSION, APP_TITLE, REQUEST_COUNT, log, handler, pc,
          pod_name, payload, resp, twin, at_begin>>

-----------------------------------------------------------------------------
(* Pure functions *)

\* Mutant: the default is ignored
GetenvNoDefault(env, key, default) == env[key]

\* os.getenv(key, default)
Getenv(env, key, default) == IF env[key] = None THEN default ELSE env[key]

\* Mutant: the value wraps around instead of growing
IncWrapping(v) == (v + 1) % 2

\* Counter.inc(): adds 1 to the value under the value's lock
Inc(v) == v + 1

\* flask.jsonify(dict): a 200 response whose body is the JSON object
Jsonify(d) == [status |-> 200, mimetype |-> "application/json", body |-> d]

\* Mutant: the body also carries the current count
InfoDictWithCount(version, title) ==
    [APP_VERSION |-> version, APP_TITLE |-> title,
     REQUEST_COUNT |-> REQUEST_COUNT]

\* the dict literal of get_info's return statement
InfoDict(version, title) == [APP_VERSION |-> version, APP_TITLE |-> title]

\* the f-string of the log call
LogLine(pod) == [level |-> "INFO", msg |-> "Request served by pod: " \o pod]

\* prometheus_client's floatToGoString for the integral values a counter
\* incremented by 1 takes: Python's repr of the float
FloatToGoString(v) == ToString(v) \o ".0"

\* Mutant: the metric is declared as a Gauge
CounterFamilyAsGauge(name, doc, v) ==
    [name |-> name \o "_total", doc |-> doc, type |-> "gauge",
     samples |-> << [name |-> name \o "_total", value |-> FloatToGoString(v)] >>,
     created |-> << >>]

\* Counter("requests_total", doc): the family is named without the _total
\* suffix and exposes the samples <name>_total and <name>_created
CounterFamily(name, doc, v) ==
    [name |-> name, doc |-> doc, type |-> "counter",
     samples |-> << [name |-> name \o "_total", value |-> FloatToGoString(v)] >>,
     created |-> << [name |-> name \o "_created", value |-> "<creation time>"] >>]

\* a collector the client library registers by default
DefaultFamily ==
    [name |-> "python_info", doc |-> "Python platform information",
     type |-> "gauge",
     samples |-> << [name |-> "python_info", value |-> "1.0"] >>,
     created |-> << >>]

\* the default registry after line 12 has run, with the counter at value v
Registry(v) ==
    << DefaultFamily,
       CounterFamily("requests", "Total number of requests to /get_info", v) >>

SampleLines(ss) ==
    [i \in 1..Len(ss) |-> [kind |-> "sample", name |-> ss[i].name,
                           text |-> ss[i].value]]

\* generate_latest's lines for one family: HELP, TYPE and the samples; a
\* counter's name gets its _total suffix back, its _created sample follows
\* as a gauge of its own
FamilyLines(f) ==
    LET mname == IF f.type = "counter" THEN f.name \o "_total" ELSE f.name
    IN  << [kind |-> "HELP", name |-> mname, text |-> f.doc],
           [kind |-> "TYPE", name |-> mname, text |-> f.type] >>
        \o SampleLines(f.samples)
        \o (IF f.created = << >> THEN << >>
            ELSE << [kind |-> "HELP", name |-> f.created[1].name, text |-> f.doc],
                    [kind |-> "TYPE", name |-> f.created[1].name, text |-> "gauge"] >>
                 \o SampleLines(f.created))

RECURSIVE RegistryLines(_)
RegistryLines(reg) ==
    IF reg = << >> THEN << >>
    ELSE FamilyLines(Head(reg)) \o RegistryLines(Tail(reg))

\* Mutant: the counter is not in the registry that is exported
GenerateLatestOtherRegistry(v) == RegistryLines(<< DefaultFamily >>)

\* generate_latest(): the exposition of the default registry
GenerateLatest(v) == RegistryLines(Registry(v))

CONTENT_TYPE_LATEST == "text/plain; version=0.0.4; charset=utf-8"

\* the router's choice of view function
Route(path) == IF path = "/get_info" THEN "get_info" ELSE "metrics"

Paths == {"/get_info", "/metrics"}

-----------------------------------------------------------------------------
(* Observations of the run, taken by metrics requests *)

InfoReqs == {q \in Req : handler[q] = "get_info"}

\* get_info invocations whose increment has run, and those that have returned
Incremented == {q \in InfoReqs : pc[q] # "inc"}
Completed == {q \in InfoReqs : pc[q] \in {"returned", "sent", "dropped"}}

NoResp == [status |-> 0]

-----------------------------------------------------------------------------
(* State after the module has been imported *)

\* n requests will arrive; the other slots stay unused
Start(n) ==
    /\ \E v \in VersionValues, t \in TitleValues, h \in HostnameValues :
          /\ environ = [APP_VERSION |-> v, APP_TITLE |-> t, HOSTNAME |-> h]
          /\ \E h2 \in HostnameValues \ {h} :
                twin = [HOSTNAME |-> h2, REQUEST_COUNT |-> 0,
                        pod_name |-> [r \in Req |-> None],
                        log |-> << >>,
                        resp |-> [r \in Req |-> NoResp]]
    /\ APP_VERSION = Getenv(environ, "APP_VERSION", "1.0")
    /\ APP_TITLE = Getenv(environ, "APP_TITLE", "Devops for Cloud Assignment")
    /\ REQUEST_COUNT = 0
    /\ log = << >>
    /\ handler = [r \in Req |-> "none"]
    /\ pc = [r \in Req |-> IF r <= n THEN "idle" ELSE "unused"]
    /\ pod_name = [r \in Req |-> None]
    /\ payload = [r \in Req |-> << >>]
    /\ resp = [r \in Req |-> NoResp]
    /\ at_begin = [r \in Req |-> 0]

Init == Start(MaxConcurrent)

InitSeq == Start(MaxReq)

-----------------------------------------------------------------------------
(* The host: dispatch of a request to its view function, and the write of   *)
(* the returned response to the client                                      *)

\* Requests are numbered in arrival order.  The router picks the handler;
\* a metrics request notes what it could observe when it started.
Dispatch(r, path) ==
    /\ pc[r] = "idle"
    /\ \A q \in Req : q < r => pc[q] # "idle"
    /\ handler' = [handler EXCEPT ![r] = Route(path)]
    /\ pc' = [pc EXCEPT ![r] = IF Route(path) = "get_info" THEN "inc"
                                ELSE "generate_latest"]
    /\ at_begin' = [at_begin EXCEPT ![r] =
                      IF Route(path) = "metrics" THEN REQUEST_COUNT ELSE @]
    /\ UNCHANGED <<environ, APP_VERSION, APP_TITLE, REQUEST_COUNT, log,
                   pod_name, payload, resp, twin>>

\* Mutant: only requests whose response was written are counted
HostWriteCountingSuccess(r, ok) ==
    /\ pc[r] = "returned"
    /\ pc' = [pc EXCEPT ![r] = IF ok THEN "sent" ELSE "dropped"]
    /\ resp' = [resp EXCEPT ![r] = NoResp]
    /\ pod_name' = [pod_name EXCEPT ![r] = None]
    /\ REQUEST_COUNT' = IF ~ok /\ handler[r] = "get_info"
                        THEN REQUEST_COUNT - 1 ELSE REQUEST_COUNT
    /\ twin' = [twin EXCEPT !.resp[r] = NoResp, !.pod_name[r] = None,
                            !.REQUEST_COUNT = REQUEST_COUNT']
    /\ UNCHANGED <<environ, APP_VERSION, APP_TITLE, log, handler, payload,
                   at_begin>>

\* The host writes the returned response to the client; the write succeeds
\* or fails (the client has gone away).  Nothing in main.py runs afterwards;
\* the response object and the handler's locals are released.
HostWrite(r, ok) ==
    /\ pc[r] = "returned"
    /\ pc' = [pc EXCEPT ![r] = IF ok THEN "sent" ELSE "dropped"]
    /\ resp' = [resp EXCEPT ![r] = NoResp]
    /\ pod_name' = [pod_name EXCEPT ![r] = None]
    /\ twin' = [twin EXCEPT !.resp[r] = NoResp, !.pod_name[r] = None]
    /\ UNCHANGED <<environ, APP_VERSION, APP_TITLE, REQUEST_COUNT, log,
                   handler, payload, at_begin>>

-----------------------------------------------------------------------------
(* get_info, one action per statement *)

\* Mutant: an unsynchronised read-modify-write; the invocations that are at
\* the increment together all read the same value and write it plus 1
GetInfoIncRacy(r) ==
    /\ handler[r] = "get_info" /\ pc[r] = "inc"
    /\ REQUEST_COUNT' = Inc(REQUEST_COUNT)
    /\ twin' = [twin EXCEPT !.REQUEST_COUNT = Inc(@)]
    /\ pc' = [q \in Req |->
                IF handler[q] = "get_info" /\ pc[q] = "inc" THEN "getenv"
                ELSE pc[q]]
    /\ UNCHANGED <<environ, APP_VERSION, APP_TITLE, log, handler, pod_name,
                   payload, resp, at_begin>>

\* line 16: REQUEST_COUNT.inc()
GetInfoInc(r) ==
    /\ handler[r] = "get_info" /\ pc[r] = "inc"
    /\ REQUEST_COUNT' = Inc(REQUEST_COUNT)
    /\ twin' = [twin EXCEPT !.REQUEST_COUNT = Inc(@)]
    /\ pc' = [pc EXCEPT ![r] = "getenv"]
    /\ UNCHANGED <<environ, APP_VERSION, APP_TITLE, log, handler, pod_name,
                   payload, resp, at_begin>>

\* line 17: pod_name = os.getenv("HOSTNAME", "unknown-pod")
GetInfoGetenv(r) ==
    /\ handler[r] = "get_info" /\ pc[r] = "getenv"
    /\ pod_name' = [pod_name EXCEPT ![r] =
                      Getenv(environ, "HOSTNAME", "unknown-pod")]
    /\ twin' = [twin EXCEPT !.pod_name[r] =
                  Getenv([environ EXCEPT !.HOSTNAME = twin.HOSTNAME],
                         "HOSTNAME", "unknown-pod")]
    /\ pc' = [pc EXCEPT ![r] = "log"]
    /\ UNCHANGED <<environ, APP_VERSION, APP_TITLE, REQUEST_COUNT, log,
                   handler, payload, resp, at_begin>>

\* line 18: flask_app.logger.info(f"Request served by pod: {pod_name}")
GetInfoLog(r) ==
    /\ handler[r] = "get_info" /\ pc[r] = "log"
    /\ log' = Append(log, LogLine(pod_name[r]))
    /\ twin' = [twin EXCEPT !.log = Append(@, LogLine(twin.pod_name[r]))]
    /\ pc' = [pc EXCEPT ![r] = "jsonify"]
    /\ UNCHANGED <<environ, APP_VERSION, APP_TITLE, REQUEST_COUNT, handler,
                   pod_name, payload, resp, at_begin>>

\* Mutant: the body also names the serving pod
GetInfoReturnWithPod(r) ==
    /\ handler[r] = "get_info" /\ pc[r] = "jsonify"
    /\ resp' = [resp EXCEPT ![r] =
                  Jsonify([APP_VERSION |-> APP_VERSION, APP_TITLE |-> APP_TITLE,
                           POD |-> pod_name[r]])]
    /\ twin' = [twin EXCEPT !.resp[r] =
                  Jsonify([APP_VERSION |-> APP_VERSION, APP_TITLE |-> APP_TITLE,
                           POD |-> twin.pod_name[r]])]
    /\ pc' = [pc EXCEPT ![r] = "returned"]
    /\ UNCHANGED <<environ, APP_VERSION, APP_TITLE, REQUEST_COUNT, log,
                   handler, pod_name, payload, at_begin>>

\* lines 19-22: return jsonify({...})
GetInfoReturn(r) ==
    /\ handler[r] = "get_info" /\ pc[r] = "jsonify"
    /\ resp' = [resp EXCEPT ![r] = Jsonify(InfoDict(APP_VERSION, APP_TITLE))]
    /\ twin' = [twin EXCEPT !.resp[r] =
                  Jsonify(InfoDict(APP_VERSION, APP_TITLE))]
    /\ pc' = [pc EXCEPT ![r] = "returned"]
    /\ UNCHANGED <<environ, APP_VERSION, APP_TITLE, REQUEST_COUNT, log,
                   handler, pod_name, payload, at_begin>>

-----------------------------------------------------------------------------
(* metrics *)

\* Mutant: the export counts itself as a request
MetricsGenerateCounting(r) ==
    /\ handler[r] = "metrics" /\ pc[r] = "generate_latest"
    /\ REQUEST_COUNT' = Inc(REQUEST_COUNT)
    /\ payload' = [payload EXCEPT ![r] = GenerateLatest(REQUEST_COUNT')]
    /\ twin' = [twin EXCEPT !.REQUEST_COUNT = Inc(@)]
    /\ pc' = [pc EXCEPT ![r] = "return"]
    /\ UNCHANGED <<environ, APP_VERSION, APP_TITLE, log, handler, pod_name,
                   resp, at_begin>>

\* Mutant: the value is read without the lock and shows an increment that
\* is still in progress
MetricsGenerateTorn(r) ==
    /\ handler[r] = "metrics" /\ pc[r] = "generate_latest"
    /\ payload' = [payload EXCEPT ![r] =
                     GenerateLatest(IF \E q \in Req : pc[q] = "inc"
                                    THEN REQUEST_COUNT + 1
                                    ELSE REQUEST_COUNT)]
    /\ pc' = [pc EXCEPT ![r] = "return"]
    /\ UNCHANGED <<environ, APP_VERSION, APP_TITLE, REQUEST_COUNT, log,
                   handler, pod_name, resp, twin, at_begin>>

\* line 26, the call generate_latest(): every sample is read under its
\* value's lock, so the counter is read in one step
MetricsGenerate(r) ==
    /\ handler[r] = "metrics" /\ pc[r] = "generate_latest"
    /\ payload' = [payload EXCEPT ![r] = GenerateLatest(REQUEST_COUNT)]
    /\ pc' = [pc EXCEPT ![r] = "return"]
    /\ UNCHANGED <<environ, APP_VERSION, APP_TITLE, REQUEST_COUNT, log,
                   handler, pod_name, resp, twin, at_begin>>

\* line 26, the return of (body, 200, headers)
MetricsReturn(r) ==
    /\ handler[r] = "metrics" /\ pc[r] = "return"
    /\ resp' = [resp EXCEPT ![r] =
                  [status |-> 200, mimetype |-> CONTENT_TYPE_LATEST,
                   body |-> payload[r]]]
    /\ payload' = [payload EXCEPT ![r] = << >>]
    /\ at_begin' = [at_begin EXCEPT ![r] = 0]
    /\ pc' = [pc EXCEPT ![r] = "returned"]
    /\ UNCHANGED <<environ, APP_VERSION, APP_TITLE, REQUEST_COUNT, log,
                   handler, pod_name, twin>>

-----------------------------------------------------------------------------

Next ==
    \/ \E r \in Req, path \in Paths : Dispatch(r, path)
    \/ \E r \in Req : GetInfoInc(r)
    \/ \E r \in Req : GetInfoGetenv(r)
    \/ \E r \in Req : GetInfoLog(r)
    \/ \E r \in Req : GetInfoReturn(r)
    \/ \E r \in Req : MetricsGenerate(r)
    \/ \E r \in Req : MetricsReturn(r)
    \/ \E r \in Req, ok \in BOOLEAN : HostWrite(r, ok)

Spec == Init /\ [][Next]_vars

\* A host with a single worker: a request is dispatched only when no other
\* is in flight.
Quiet == \A q \in Req : pc[q] \in {"idle", "unused", "sent", "dropped"}

NextSeq ==
    \/ \E r \in Req, path \in Paths : Quiet /\ Dispatch(r, path)
    \/ \E r \in Req : GetInfoInc(r)
    \/ \E r \in Req : GetInfoGetenv(r)
    \/ \E r \in Req : GetInfoLog(r)
    \/ \E r \in Req : GetInfoReturn(r)
    \/ \E r \in Req : MetricsGenerate(r)
    \/ \E r \in Req : MetricsReturn(r)
    \/ \E r \in Req, ok \in BOOLEAN : HostWrite(r, ok)

SpecSeq == InitSeq /\ [][NextSeq]_vars

-----------------------------------------------------------------------------
(* What a scraper reads from an exposition *)

\* the number a sample's text denotes (the inverse of FloatToGoString), -1 if
\* it denotes none
ParseFloat(s) ==
    IF \E k \in 0..MaxReq : FloatToGoString(k) = s
    THEN CHOOSE k \in 0..MaxReq : FloatToGoString(k) = s
    ELSE -1

LinesOf(lines, kind, name) ==
    {i \in DOMAIN lines : lines[i].kind = kind /\ lines[i].name = name}

\* the value of the sample requests_total in an exposition, -1 if it has none
Reported(lines) ==
    LET S == LinesOf(lines, "sample", "requests_total")
    IN  IF S = {} THEN -1 ELSE ParseFloat(lines[CHOOSE i \in S : TRUE].text)

\* the exposition declares requests_total once, with its help text and the
\* type counter, and carries one sample of that name
DeclaresOnce(lines) ==
    /\ \E i \in DOMAIN lines :
          /\ LinesOf(lines, "TYPE", "requests_total") = {i}
          /\ lines[i].text = "counter"
    /\ \E i \in DOMAIN lines :
          /\ LinesOf(lines, "HELP", "requests_total") = {i}
          /\ lines[i].text = "Total number of requests to /get_info"
    /\ Cardinality(LinesOf(lines, "sample", "requests_total")) = 1

MetricsReqs == {r \in Req : handler[r] = "metrics"}

\* metrics requests that have read the registry and not yet returned
Reading == {r \in MetricsReqs : pc[r] = "return"}

\* requests whose handler has returned and whose response is not yet written
Returned(h) == {r \in Req : handler[r] = h /\ pc[r] = "returned"}

-----------------------------------------------------------------------------
(* Claims *)

\* C1: no lost increments.  When an export reads the registry after all N
\* get_info invocations dispatched so far have completed, however their
\* steps interleaved, it reports exactly N (the counter started at 0).
C1_NoLostIncrements ==
    [][\A r \in Req :
         (MetricsGenerate(r) /\ InfoReqs = Completed)
            => Reported(payload'[r]) = Cardinality(InfoReqs)]_vars

C1_Witness ==
    \E r \in Reading :
       /\ InfoReqs = Completed
       /\ Cardinality(InfoReqs) >= 2
       /\ Reported(payload[r]) = Cardinality(InfoReqs)

\* C2: an export has no effect on the counter.  Every step of metrics
\* leaves REQUEST_COUNT unchanged and the exposition reports that unchanged
\* value, so exports with no get_info between them report the same value;
\* the only step that changes the counter is get_info's increment.
C2_ExportFrame ==
    [][/\ \A r \in Req :
            (MetricsGenerate(r) \/ MetricsReturn(r))
               => REQUEST_COUNT' = REQUEST_COUNT
       /\ \A r \in Req :
            MetricsGenerate(r) => Reported(payload'[r]) = REQUEST_COUNT'
       /\ (REQUEST_COUNT' # REQUEST_COUNT) => \E r \in Req : GetInfoInc(r)]_vars

C2_Witness ==
    \E r1 \in Reading, r2 \in Returned("metrics") :
       /\ REQUEST_COUNT >= 1
       /\ Reported(payload[r1]) = REQUEST_COUNT
       /\ Reported(resp[r2].body) = REQUEST_COUNT

\* C3: the counter is a natural number, 0 at start, and no step decreases
\* it.
C3_Monotonic ==
    /\ REQUEST_COUNT = 0
    /\ [](REQUEST_COUNT \in Nat)
    /\ [][REQUEST_COUNT' >= REQUEST_COUNT]_vars

C3_Witness == REQUEST_COUNT >= 2

\* C4: every response get_info returns has status 200 and a body with
\* exactly the keys APP_VERSION and APP_TITLE, holding the configuration
\* read at import, which no step changes.
C4_InfoResponse ==
    /\ [](\A r \in Returned("get_info") :
            /\ resp[r].status = 200
            /\ DOMAIN resp[r].body = {"APP_VERSION", "APP_TITLE"}
            /\ resp[r].body.APP_VERSION = APP_VERSION
            /\ resp[r].body.APP_TITLE = APP_TITLE)
    /\ [][APP_VERSION' = APP_VERSION /\ APP_TITLE' = APP_TITLE]_vars

C4_Witness ==
    \E r \in Returned("get_info") :
       /\ REQUEST_COUNT >= 2
       /\ \E q \in Req \ {r} : pc[q] \in {"getenv", "log", "generate_latest"}
       /\ resp[r].body.APP_VERSION = "2.3.1"

\* C5: a configuration variable that is not set in the environment takes
\* its default, "1.0" or "Devops for Cloud Assignment", each on its own; one
\* that is set keeps its value; get_info answers 200 either way.
C5_Defaults ==
    \A r \in Returned("get_info") :
       /\ resp[r].status = 200
       /\ resp[r].body.APP_VERSION =
             (IF environ.APP_VERSION = None THEN "1.0"
              ELSE environ.APP_VERSION)
       /\ resp[r].body.APP_TITLE =
             (IF environ.APP_TITLE = None THEN "Devops for Cloud Assignment"
              ELSE environ.APP_TITLE)

C5_Witness ==
    \E r \in Returned("get_info") :
       /\ environ.APP_VERSION = None /\ environ.APP_TITLE = None
       /\ resp[r].body = [APP_VERSION |-> "1.0",
                          APP_TITLE |-> "Devops for Cloud Assignment"]

\* C6: served one request at a time from a fresh process, an export that
\* follows k get_info calls carries the sample requests_total with a text
\* that denotes k, whatever the configuration.
C6_ExportAfterK ==
    \A r \in Returned("metrics") :
       /\ Cardinality(LinesOf(resp[r].body, "sample", "requests_total")) = 1
       /\ Reported(resp[r].body) = Cardinality(InfoReqs)

C6_Witness ==
    \E r \in Returned("metrics") :
       /\ environ.APP_VERSION = "2.3.1" /\ environ.APP_TITLE = "MyApp"
       /\ Cardinality(InfoReqs) = 3
       /\ \E i \in DOMAIN resp[r].body :
             resp[r].body[i] = [kind |-> "sample", name |-> "requests_total",
                                text |-> "3.0"]

C8_IncrementKept ==
    /\ REQUEST_COUNT = Cardinality(Incremented)
    /\ \A r \in Reading : Reported(payload[r]) >= at_begin[r]

C8_Witness ==
    \E r \in Reading, q1, q2 \in InfoReqs :
       /\ pc[q1] = "dropped" /\ pc[q2] \in {"getenv", "log", "jsonify"}
       /\ at_begin[r] = 2
       /\ Reported(payload[r]) = 2

\* C9: no torn reads.  The value an export reports lies between the
\* counter's value when the export was dispatched and the counter's value at
\* every instant until the export returns; the counter moves by steps of 1
\* (C2, C3), so it held that value in between.
C9_NoTornRead ==
    \A r \in Reading :
       /\ at_begin[r] <= Reported(payload[r])
       /\ Reported(payload[r]) <= REQUEST_COUNT

C9_Witness ==
    \E r \in Reading :
       /\ at_begin[r] < Reported(payload[r])
       /\ Reported(payload[r]) < REQUEST_COUNT

\* C10: HOSTNAME is log-only.  The twin run takes the same steps under a
\* different HOSTNAME value; its counter and its get_info responses equal
\* this run's at every step, and each run logs its own pod identity,
\* "unknown-pod" when HOSTNAME is not set.
PodOf(h) == IF h = None THEN "unknown-pod" ELSE h

C10_HostnameLogOnly ==
    /\ twin.HOSTNAME # environ.HOSTNAME
    /\ twin.REQUEST_COUNT = REQUEST_COUNT
    /\ \A r \in InfoReqs : twin.resp[r] = resp[r]
    /\ Len(twin.log) = Len(log)
    /\ \A i \in DOMAIN log :
          /\ log[i].msg = "Request served by pod: " \o PodOf(environ.HOSTNAME)
          /\ twin.log[i].msg = "Request served by pod: " \o PodOf(twin.HOSTNAME)

C10_Witness ==
    \E r \in Returned("get_info") :
       /\ environ.HOSTNAME = None
       /\ resp[r].status = 200 /\ twin.resp[r].status = 200
       /\ log # << >> /\ log # twin.log

====
